---- MODULE Spec2Model ----
(***************************************************************************)
(* A model of the Lisp REPL of src/src/main.rs: the tokenizer, the reader  *)
(* (parse / read_seq), the built-in procedures, the evaluator and the      *)
(* read-eval-print loop.                                                   *)
(*                                                                         *)
(* Text is a sequence of one-character strings.  A Number is an integer:   *)
(* every sum of the small integers used here is exact in an f64.  A piece  *)
(* of output or an error message is a sequence of text fragments whose     *)
(* concatenation is the text written.  A TLA+ string cannot hold the grave  *)
(* accent of the source's messages; an apostrophe stands for it.           *)
(***************************************************************************)
EXTENDS Integers, Sequences, FiniteSets, TLC

VARIABLES pc, exp, tokens, xs, res, next_token, rest, ret, out, env, eof, call

vars == <<pc, exp, tokens, xs, res, next_token, rest, ret, out, env, eof, call>>

(***************************************************************************)
(* Bounds of the model.                                                    *)
(***************************************************************************)
\* longest input string handed to tokenize
MaxLen == 3
\* longest line typed at the prompt (without its newline)
MaxLineLen == 2
\* longest token sequence handed to parse
MaxTokens == 4
\* longest argument vector handed to a built-in
MaxArgs == 3
\* longest List handed to eval
MaxListLen == 3
\* lines the session writes before the model stops following it
MaxOut == 4

(***************************************************************************)
(* Characters and strings.                                                 *)
(***************************************************************************)
Whitespace == {" ", "\n"}

LineChars == {"(", ")", " ", "+", "-", "1", "a"}

Chars == LineChars \cup {"\n"}

RECURSIVE StrsOfLen(_, _)
StrsOfLen(S, n) ==
    IF n = 0 THEN {<<>>}
    ELSE {Append(s, c) : s \in StrsOfLen(S, n - 1), c \in S}

StrsUpTo(S, n) == UNION {StrsOfLen(S, k) : k \in 0..n}

(***************************************************************************)
(* tokenize                                                                *)
(***************************************************************************)
\* str::replace with a one-character pattern
RECURSIVE replace(_, _, _)
replace(s, from, to) ==
    IF s = <<>> THEN <<>>
    ELSE (IF Head(s) = from THEN to ELSE <<Head(s)>>) \o replace(Tail(s), from, to)

\* str::split_whitespace: the maximal runs of non-whitespace characters
RECURSIVE split_ws(_, _, _)
split_ws(s, cur, acc) ==
    IF s = <<>> THEN (IF cur = <<>> THEN acc ELSE Append(acc, cur))
    ELSE IF Head(s) \in Whitespace
         THEN split_ws(Tail(s), <<>>, IF cur = <<>> THEN acc ELSE Append(acc, cur))
         ELSE split_ws(Tail(s), Append(cur, Head(s)), acc)

split_whitespace(s) == split_ws(s, <<>>, <<>>)

tokenize(e) ==
    split_whitespace(
        replace(replace(e, "(", <<" ", "(", " ">>), ")", <<" ", "(", " ">>))

(***************************************************************************)
(* LangExp, LangErr and Result                                             *)
(***************************************************************************)
Symbol(s) == [tag |-> "Symbol", s |-> s]

Number(n) == [tag |-> "Number", n |-> n]

List(l) == [tag |-> "List", l |-> l]

\* a fn pointer is the name of the closure it points to
Func(f) == [tag |-> "Func", f |-> f]

\* Err(LangErr::Reason(msg))
Err(msg) == [kind |-> "Err", msg |-> msg]

\* Ok(v) of eval and of the built-ins
Ok(v) == [kind |-> "Ok", val |-> v]

\* Ok((e, r)) of parse and read_seq
OkParse(e, r) == [kind |-> "Ok", exp |-> e, rest |-> r]

\* no call has returned yet
NoResult == [kind |-> "None"]

(***************************************************************************)
(* parse_atom                                                              *)
(***************************************************************************)
Digits == <<"0", "1", "2", "3", "4", "5", "6", "7", "8", "9">>

IsDigit(c) == \E i \in DOMAIN Digits : Digits[i] = c

DigitVal(c) == (CHOOSE i \in DOMAIN Digits : Digits[i] = c) - 1

RECURSIVE DecimalVal(_)
DecimalVal(ds) ==
    IF ds = <<>> THEN 0
    ELSE 10 * DecimalVal(SubSeq(ds, 1, Len(ds) - 1)) + DigitVal(ds[Len(ds)])

\* <f64 as FromStr>::from_str on a token of sign characters, digits and letters
\* other than those of inf, nan and an exponent: an optional sign and one or
\* more digits
ParseFloat(token) ==
    LET signed == token # <<>> /\ Head(token) \in {"+", "-"}
        ds == IF signed THEN Tail(token) ELSE token
    IN IF ds # <<>> /\ \A i \in DOMAIN ds : IsDigit(ds[i])
       THEN [ok |-> TRUE,
             v |-> IF signed /\ Head(token) = "-" THEN 0 - DecimalVal(ds)
                   ELSE DecimalVal(ds)]
       ELSE [ok |-> FALSE, v |-> 0]

parse_atom(token) ==
    LET potential_float == ParseFloat(token)
    IN IF potential_float.ok THEN Number(potential_float.v) ELSE Symbol(token)

(***************************************************************************)
(* parse and read_seq                                                      *)
(***************************************************************************)
OpenParen == <<"(">>

CloseParen == <<")">>

\* the split_first of read_seq's loop: the error return, or the bound pair
read_seq_split(ts) ==
    IF ts = <<>> THEN Err(<<"could not find closing ')'">>)
    ELSE [kind |-> "Some", next_token |-> Head(ts), rest |-> Tail(ts)]

\* parse up to its match: a Result, or the call read_seq(rest) it ends with
parse(ts) ==
    IF ts = <<>> THEN Err(<<"could not get token">>)
    ELSE LET token == Head(ts)
             rst == Tail(ts)
         IN IF token = OpenParen THEN [kind |-> "read_seq", tokens |-> rst]
            ELSE IF token = CloseParen THEN Err(<<"unexpected ')'">>)
            ELSE OkParse(parse_atom(token), rst)

\* the test that ends read_seq's loop body
read_seq_test(nt, rs, acc) ==
    IF nt = CloseParen THEN OkParse(List(acc), rs)
    ELSE [kind |-> "loop"]

(***************************************************************************)
(* The built-in procedures and default_env                                 *)
(***************************************************************************)
parse_single_float(e) ==
    IF e.tag = "Number" THEN [kind |-> "Ok", float |-> e.n]
    ELSE Err(<<"expected a number">>)

\* map(parse_single_float) collected into a Result: the first error, or all
RECURSIVE parse_list_of_floats(_)
parse_list_of_floats(args) ==
    IF args = <<>> THEN [kind |-> "Ok", floats |-> <<>>]
    ELSE LET h == parse_single_float(Head(args))
         IN IF h.kind = "Err" THEN h
            ELSE LET t == parse_list_of_floats(Tail(args))
                 IN IF t.kind = "Err" THEN t
                    ELSE [kind |-> "Ok", floats |-> <<h.float>> \o t.floats]

\* iter().fold(init, |sum, a| sum + a)
RECURSIVE fold_sum(_, _)
fold_sum(init, floats) ==
    IF floats = <<>> THEN init
    ELSE fold_sum(init + Head(floats), Tail(floats))

\* "+" folding the arguments after the first only
builtin_add_skips_first(args) ==
    LET floats == parse_list_of_floats(args)
    IN IF floats.kind = "Err" THEN floats
       ELSE IF floats.floats = <<>> THEN Ok(Number(0))
       ELSE Ok(Number(fold_sum(0, Tail(floats.floats))))

\* the closure bound to "+"
builtin_add(args) ==
    LET floats == parse_list_of_floats(args)
    IN IF floats.kind = "Err" THEN floats
       ELSE Ok(Number(fold_sum(0, floats.floats)))

\* the closure bound to "-"
builtin_sub(args) ==
    LET floats == parse_list_of_floats(args)
    IN IF floats.kind = "Err" THEN floats
       ELSE IF floats.floats = <<>> THEN Err(<<"expected at least one number">>)
       ELSE LET sum_of_rest == fold_sum(0, Tail(floats.floats))
            IN Ok(Number(sum_of_rest))

\* a call through the fn pointer of a Func
call_func(f, args) ==
    IF f = "add" THEN builtin_add(args) ELSE builtin_sub(args)

default_env ==
    [k \in {<<"+">>, <<"-">>} |-> IF k = <<"+">> THEN Func("add") ELSE Func("sub")]

(***************************************************************************)
(* eval.  The environment is passed by mutable reference: eval yields its  *)
(* Result, the environment as the call leaves it, and the forms whose      *)
(* evaluation it began, in order.                                          *)
(***************************************************************************)
EvalOut(r, en, lg) == [res |-> r, env |-> en, log |-> lg]

\* a lookup whose error does not name the symbol
eval_symbol_unnamed(k, en) ==
    IF k \in DOMAIN en THEN Ok(en[k])
    ELSE Err(<<"unexpected symbol">>)

\* env.data.get(k).ok_or(..).map(clone)
eval_symbol(k, en) ==
    IF k \in DOMAIN en THEN Ok(en[k])
    ELSE Err(<<"unexpected symbol k='">> \o k \o <<"'">>)

RECURSIVE eval(_, _)

\* an argument loop that evaluates every argument and keeps the last error
RECURSIVE eval_args_all(_, _)
eval_args_all(arg_forms, en) ==
    IF arg_forms = <<>> THEN EvalOut([kind |-> "Ok", vals |-> <<>>], en, <<>>)
    ELSE LET h == eval(Head(arg_forms), en)
             t == eval_args_all(Tail(arg_forms), h.env)
         IN EvalOut(IF t.res.kind = "Err" THEN t.res
                    ELSE IF h.res.kind = "Err" THEN h.res
                    ELSE [kind |-> "Ok", vals |-> <<h.res.val>> \o t.res.vals],
                    t.env, h.log \o t.log)

\* arg_forms.iter().map(eval).collect(): stops at the first error
RECURSIVE eval_args(_, _)
eval_args(arg_forms, en) ==
    IF arg_forms = <<>> THEN EvalOut([kind |-> "Ok", vals |-> <<>>], en, <<>>)
    ELSE LET h == eval(Head(arg_forms), en)
         IN IF h.res.kind = "Err" THEN h
            ELSE LET t == eval_args(Tail(arg_forms), h.env)
                 IN EvalOut(IF t.res.kind = "Err" THEN t.res
                            ELSE [kind |-> "Ok", vals |-> <<h.res.val>> \o t.res.vals],
                            t.env, h.log \o t.log)

\* the List arm of eval's match
eval_list(e, en) ==
    IF e.l = <<>> THEN EvalOut(Err(<<"expected a non-empty list">>), en, <<e>>)
    ELSE LET first_form == Head(e.l)
             arg_forms == Tail(e.l)
             first_eval == eval(first_form, en)
         IN IF first_eval.res.kind = "Err"
            THEN EvalOut(first_eval.res, first_eval.env, <<e>> \o first_eval.log)
            ELSE IF first_eval.res.val.tag = "Func"
            THEN LET args_eval == eval_args(arg_forms, first_eval.env)
                     lg == <<e>> \o first_eval.log \o args_eval.log
                 IN IF args_eval.res.kind = "Err"
                    THEN EvalOut(args_eval.res, args_eval.env, lg)
                    ELSE EvalOut(call_func(first_eval.res.val.f, args_eval.res.vals),
                                 args_eval.env, lg)
            ELSE EvalOut(Err(<<"first form must be a function">>),
                         first_eval.env, <<e>> \o first_eval.log)

\* an eval that binds a Symbol it does not find to itself
eval_binds_missing(e, en) ==
    IF e.tag = "Symbol"
    THEN EvalOut(eval_symbol(e.s, en),
                 [k \in DOMAIN en \cup {e.s} |-> IF k \in DOMAIN en THEN en[k] ELSE e],
                 <<e>>)
    ELSE IF e.tag = "Number" THEN EvalOut(Ok(e), en, <<e>>)
    ELSE IF e.tag = "List" THEN eval_list(e, en)
    ELSE EvalOut(Err(<<"unexpected form">>), en, <<e>>)

eval(e, en) ==
    IF e.tag = "Symbol" THEN EvalOut(eval_symbol(e.s, en), en, <<e>>)
    ELSE IF e.tag = "Number" THEN EvalOut(Ok(e), en, <<e>>)
    ELSE IF e.tag = "List" THEN eval_list(e, en)
    ELSE EvalOut(Err(<<"unexpected form">>), en, <<e>>)

(***************************************************************************)
(* Display for LangExp                                                     *)
(***************************************************************************)
RECURSIVE nat_to_string(_)
nat_to_string(n) ==
    IF n < 10 THEN <<Digits[n + 1]>>
    ELSE nat_to_string(n \div 10) \o <<Digits[(n % 10) + 1]>>

\* f64::to_string of an integral value
to_string(n) ==
    IF n < 0 THEN <<"-">> \o nat_to_string(0 - n) ELSE nat_to_string(n)

RECURSIVE join(_, _)
join(strs, sep) ==
    IF strs = <<>> THEN <<>>
    ELSE IF Len(strs) = 1 THEN strs[1]
    ELSE strs[1] \o <<sep>> \o join(Tail(strs), sep)

RECURSIVE fmt(_)
fmt(e) ==
    IF e.tag = "Symbol" THEN e.s
    ELSE IF e.tag = "Number" THEN to_string(e.n)
    ELSE IF e.tag = "List"
    THEN <<"(">> \o join([i \in DOMAIN e.l |-> fmt(e.l[i])], ",") \o <<")">>
    ELSE <<"Function {}">>

(***************************************************************************)
(* The session: repl, slurp_exp, parse_eval                                *)
(***************************************************************************)
\* the lines a user may type, without the newline read_line keeps
Lines == StrsUpTo(LineChars, MaxLineLen)

\* what read_line leaves in the buffer: a line with its newline, or nothing
\* at end of input, which lasts
ReadLine(atEnd) ==
    {[buf |-> <<>>, eof |-> TRUE]}
    \cup (IF atEnd THEN {} ELSE {[buf |-> Append(l, "\n"), eof |-> FALSE] : l \in Lines})

Init ==
    /\ pc = "prompt"
    /\ exp = <<>>
    /\ tokens = <<>>
    /\ xs = <<>>
    /\ res = <<>>
    /\ next_token = <<>>
    /\ rest = <<>>
    /\ ret = NoResult
    /\ out = <<>>
    /\ env = default_env
    /\ eof = FALSE
    /\ call = [fn |-> "none"]

\* println!("lang >")
Prompt ==
    /\ pc = "prompt"
    /\ Len(out) < MaxOut
    /\ out' = Append(out, <<"lang >">>)
    /\ pc' = "slurp"
    /\ UNCHANGED <<exp, tokens, xs, res, next_token, rest, ret, env, eof, call>>

\* let exp = slurp_exp()
Slurp ==
    /\ pc = "slurp"
    /\ \E r \in ReadLine(eof) :
          /\ exp' = r.buf
          /\ eof' = r.eof
    /\ pc' = "parse_eval"
    /\ UNCHANGED <<tokens, xs, res, next_token, rest, ret, out, env, call>>

\* parse_eval: tokenize(exp), handed to parse
Tokenize ==
    /\ pc = "parse_eval"
    /\ tokens' = tokenize(exp)
    /\ pc' = "parse"
    /\ UNCHANGED <<exp, xs, res, next_token, rest, ret, out, env, eof, call>>

\* parse: an error, an atom, or the call of read_seq with res empty
Parse ==
    /\ pc = "parse"
    /\ LET r == parse(tokens)
       IN IF r.kind = "read_seq"
          THEN /\ xs' = r.tokens
               /\ res' = <<>>
               /\ pc' = "read_seq_split"
               /\ ret' = NoResult
          ELSE /\ ret' = r
               /\ pc' = "parsed"
               /\ UNCHANGED <<xs, res>>
    /\ UNCHANGED <<exp, tokens, next_token, rest, out, env, eof, call>>

\* read_seq's loop, first statement: split_first, or the error return
ReadSeqSplit ==
    /\ pc = "read_seq_split"
    /\ LET r == read_seq_split(xs)
       IN IF r.kind = "Err"
          THEN /\ ret' = r
               /\ pc' = "parsed"
               /\ UNCHANGED <<next_token, rest>>
          ELSE /\ next_token' = r.next_token
               /\ rest' = r.rest
               /\ pc' = "read_seq_test"
               /\ UNCHANGED ret
    /\ UNCHANGED <<exp, tokens, xs, res, out, env, eof, call>>

\* read_seq's loop, second statement: return at ")", else the next iteration
\* with xs and res as they were
ReadSeqTest ==
    /\ pc = "read_seq_test"
    /\ LET r == read_seq_test(next_token, rest, res)
       IN IF r.kind = "Ok"
          THEN /\ ret' = r
               /\ pc' = "parsed"
          ELSE /\ pc' = "read_seq_split"
               /\ UNCHANGED ret
    /\ UNCHANGED <<exp, tokens, xs, res, next_token, rest, out, env, eof, call>>

\* parse_eval after parse: its error returned, or eval of the parsed form
Eval ==
    /\ pc = "parsed"
    /\ IF ret.kind = "Err"
       THEN UNCHANGED <<ret, env>>
       ELSE LET r == eval(ret.exp, env)
            IN /\ ret' = r.res
               /\ env' = r.env
    /\ pc' = "print"
    /\ UNCHANGED <<exp, tokens, xs, res, next_token, rest, out, eof, call>>

\* the line repl writes for the Result of parse_eval
Response(r) ==
    <<"// => ">> \o (IF r.kind = "Ok" THEN fmt(r.val) ELSE r.msg)

\* println!("// => {}", ..)
PrintResult ==
    /\ pc = "print"
    /\ Len(out) < MaxOut
    /\ out' = Append(out, Response(ret))
    /\ pc' = "prompt"
    /\ UNCHANGED <<exp, tokens, xs, res, next_token, rest, ret, env, eof, call>>

Next ==
    \/ Prompt
    \/ Slurp
    \/ Tokenize
    \/ Parse
    \/ ReadSeqSplit
    \/ ReadSeqTest
    \/ Eval
    \/ PrintResult

Spec == Init /\ [][Next]_vars

\* the process runs while it can take a step
FairSpec == Spec /\ WF_vars(Next)

(***************************************************************************)
(* parse called on its own, on any token sequence                          *)
(***************************************************************************)
TokenSet == {OpenParen, CloseParen, <<"a">>, <<"1">>}

TokenSeqs == StrsUpTo(TokenSet, MaxTokens)

ParseInit ==
    /\ pc = "idle"
    /\ exp = <<>>
    /\ tokens = <<>>
    /\ xs = <<>>
    /\ res = <<>>
    /\ next_token = <<>>
    /\ rest = <<>>
    /\ ret = NoResult
    /\ out = <<>>
    /\ env = default_env
    /\ eof = FALSE
    /\ call = [fn |-> "none"]

\* a caller hands parse a token sequence
ParseCall ==
    /\ pc = "idle"
    /\ \E ts \in TokenSeqs : tokens' = ts
    /\ pc' = "parse"
    /\ ret' = NoResult
    /\ UNCHANGED <<exp, xs, res, next_token, rest, out, env, eof, call>>

ParseNext ==
    \/ ParseCall
    \/ Parse
    \/ ReadSeqSplit
    \/ ReadSeqTest

ParseSpec == ParseInit /\ [][ParseNext]_vars

\* a call of parse runs while it can take a step
FairParseSpec == ParseSpec /\ WF_vars(Parse \/ ReadSeqSplit \/ ReadSeqTest)

(***************************************************************************)
(* tokenize, the built-ins and eval called on their own                    *)
(***************************************************************************)
Strs == StrsUpTo(Chars, MaxLen)

\* argument values: Numbers and one value of every other variant
ArgVals ==
    {Number(n) : n \in -2..3}
    \cup {Symbol(<<"a">>), List(<<>>), Func("add")}

ArgVectors == StrsUpTo(ArgVals, MaxArgs)

SymNames == {<<"+">>, <<"-">>, <<"a">>, <<"A">>, <<"b">>, <<"+", "a">>}

AllAtoms ==
    {Number(n) : n \in -2..3}
    \cup {Symbol(k) : k \in SymNames}
    \cup {Func("add"), Func("sub")}

\* the atoms the Lists evaluated are built of: a Number, a bound Symbol and
\* two unbound ones
SmallAtoms == {Number(1), Symbol(<<"+">>), Symbol(<<"a">>), Symbol(<<"b">>)}

InnerLists ==
    {List(<<>>)}
    \cup {List(<<a>>) : a \in SmallAtoms}
    \cup {List(<<Symbol(<<"+">>), a>>) : a \in SmallAtoms}

OuterLists == {List(l) : l \in StrsUpTo(SmallAtoms \cup InnerLists, MaxListLen)}

EvalInputs == AllAtoms \cup InnerLists \cup OuterLists

\* the default environment, and one with a further binding
Envs == {default_env, [k \in DOMAIN default_env \cup {<<"a">>} |->
                          IF k \in DOMAIN default_env THEN default_env[k]
                          ELSE Number(2)]}

FnInit ==
    /\ pc = "idle"
    /\ exp = <<>>
    /\ tokens = <<>>
    /\ xs = <<>>
    /\ res = <<>>
    /\ next_token = <<>>
    /\ rest = <<>>
    /\ ret = NoResult
    /\ out = <<>>
    /\ env = default_env
    /\ eof = FALSE
    /\ call = [fn |-> "none"]

CallTokenize ==
    /\ pc = "idle"
    /\ pc' = "returned"
    /\ \E s \in Strs :
          /\ call' = [fn |-> "tokenize", s |-> s]
          /\ ret' = tokenize(s)
    /\ UNCHANGED <<exp, tokens, xs, res, next_token, rest, out, env, eof>>

CallAdd ==
    /\ pc = "idle"
    /\ pc' = "returned"
    /\ \E args \in ArgVectors :
          /\ call' = [fn |-> "add", args |-> args]
          /\ ret' = builtin_add(args)
    /\ UNCHANGED <<exp, tokens, xs, res, next_token, rest, out, env, eof>>

CallSub ==
    /\ pc = "idle"
    /\ pc' = "returned"
    /\ \E args \in ArgVectors :
          /\ call' = [fn |-> "sub", args |-> args]
          /\ ret' = builtin_sub(args)
    /\ UNCHANGED <<exp, tokens, xs, res, next_token, rest, out, env, eof>>

CallEval ==
    /\ pc = "idle"
    /\ pc' = "returned"
    /\ \E e \in EvalInputs, en \in Envs :
          /\ call' = [fn |-> "eval", e |-> e, env |-> en]
          /\ ret' = eval(e, en)
    /\ UNCHANGED <<exp, tokens, xs, res, next_token, rest, out, env, eof>>

FnNext ==
    \/ CallTokenize
    \/ CallAdd
    \/ CallSub
    \/ CallEval

FnSpec == FnInit /\ [][FnNext]_vars

(***************************************************************************)
(* The properties                                                          *)
(***************************************************************************)
AllNumbers(args) == \A i \in DOMAIN args : args[i].tag = "Number"

\* k occurs in msg as a run of consecutive fragments
Contains(msg, k) ==
    \E i \in 1..(Len(msg) + 1) :
        /\ i + Len(k) - 1 <= Len(msg)
        /\ SubSeq(msg, i, i + Len(k) - 1) = k

\* The tokens of a string by a scan of its characters: every parenthesis is a
\* token of its own, every maximal run of other non-whitespace characters is
\* one token.
RECURSIVE RefScan(_, _, _)
RefScan(s, cur, acc) ==
    LET flushed == IF cur = <<>> THEN acc ELSE Append(acc, cur)
    IN IF s = <<>> THEN flushed
       ELSE IF Head(s) \in Whitespace THEN RefScan(Tail(s), <<>>, flushed)
       ELSE IF Head(s) \in {"(", ")"}
            THEN RefScan(Tail(s), <<>>, Append(flushed, <<Head(s)>>))
       ELSE RefScan(Tail(s), Append(cur, Head(s)), acc)

RefTokens(s) == RefScan(s, <<>>, <<>>)

\* C1: tokenize returns, in source order, exactly the "(" characters, the ")"
\* characters and the maximal runs of non-paren, non-whitespace characters of
\* its input.
C1_TokenizeExact ==
    (pc = "returned" /\ call.fn = "tokenize") => ret = RefTokens(call.s)

\* The reader the specification describes: a list's sub-expressions are parsed
\* and consumed one after the other up to the matching ")".
RECURSIVE RefParse(_), RefReadSeq(_, _)
RefParse(ts) ==
    IF ts = <<>> THEN [kind |-> "Err", why |-> "end of input"]
    ELSE IF Head(ts) = OpenParen THEN RefReadSeq(Tail(ts), <<>>)
    ELSE IF Head(ts) = CloseParen THEN [kind |-> "Err", why |-> "closing parenthesis"]
    ELSE OkParse(parse_atom(Head(ts)), Tail(ts))

RefReadSeq(ts, acc) ==
    IF ts = <<>> THEN [kind |-> "Err", why |-> "end of input"]
    ELSE IF Head(ts) = CloseParen THEN OkParse(List(acc), Tail(ts))
    ELSE LET r == RefParse(ts)
         IN IF r.kind = "Err" THEN r ELSE RefReadSeq(r.rest, Append(acc, r.exp))

\* which of the two parse errors a message of the source reports
ErrClass(msg) ==
    IF msg \in {<<"could not get token">>, <<"could not find closing ')'">>}
    THEN "end of input"
    ELSE IF msg = <<"unexpected ')'">> THEN "closing parenthesis"
    ELSE "other"

\* C2: for a token sequence that begins with "(" and whose first list is
\* balanced, parse terminates and returns the List of the list's
\* sub-expressions in order together with the tokens after the matching ")".
C2_ParseBalancedList ==
    (pc = "parse" /\ tokens # <<>> /\ Head(tokens) = OpenParen
        /\ RefParse(tokens).kind = "Ok")
    ~> (pc = "parsed" /\ ret = RefParse(tokens))

\* C3: for an unbalanced token sequence parse returns a parse error: the
\* end-of-input error when the tokens run out where one is required, the
\* closing-parenthesis error when the token to be parsed is ")".
C3_ParseUnbalancedError ==
    (pc = "parse" /\ RefParse(tokens).kind = "Err")
    ~> (pc = "parsed"
        /\ IF ret.kind = "Err" THEN ErrClass(ret.msg) = RefParse(tokens).why
           ELSE FALSE)

\* x0 - x1 - ... - x(i-1), left-associative
RECURSIVE DiffTo(_, _)
DiffTo(args, i) ==
    IF i = 1 THEN args[1].n ELSE DiffTo(args, i - 1) - args[i].n

\* C4: "-" applied to N >= 1 Numbers returns the negation of its argument
\* when N = 1 and the left-associative difference when N >= 2.
C4_SubLeftFold ==
    (pc = "returned" /\ call.fn = "sub" /\ call.args # <<>> /\ AllNumbers(call.args))
    => ret = Ok(Number(IF Len(call.args) = 1 THEN 0 - call.args[1].n
                       ELSE DiffTo(call.args, Len(call.args))))

\* 0 + x1 + ... + xi, left to right
RECURSIVE SumTo(_, _)
SumTo(args, i) ==
    IF i = 0 THEN 0 ELSE SumTo(args, i - 1) + args[i].n

\* C5: "+" applied to Numbers returns the Number that is their left-to-right
\* sum starting from 0 (0 for no argument); it returns an error only when
\* some argument is not a Number.
C5_AddFoldSum ==
    (pc = "returned" /\ call.fn = "add")
    => IF AllNumbers(call.args)
       THEN ret = Ok(Number(SumTo(call.args, Len(call.args))))
       ELSE ret.kind = "Err"

C5_Witness ==
    /\ pc = "returned"
    /\ call.fn = "add"
    /\ Len(call.args) = 3
    /\ AllNumbers(call.args)
    /\ call.args[1].n # 0
    /\ ret = Ok(Number(call.args[1].n + call.args[2].n + call.args[3].n))

\* the logs of the evaluations of l[2] .. l[k], in order
RECURSIVE ArgLogs(_, _, _)
ArgLogs(l, en, k) ==
    IF k < 2 THEN <<>> ELSE ArgLogs(l, en, k - 1) \o eval(l[k], en).log

\* C6: evaluating a List checks that it is non-empty, evaluates the head,
\* checks that the head is a Procedure, evaluates the arguments left to right
\* and calls the Procedure; the result is the error of the first step that
\* fails and no later step is performed: the evaluations begun are those up
\* to the failing one.
C6_EvalListOrder ==
    (pc = "returned" /\ call.fn = "eval" /\ call.e.tag = "List")
    => LET e == call.e
           l == call.e.l
           en == call.env
       IN IF l = <<>>
          THEN ret.res = Err(<<"expected a non-empty list">>) /\ ret.log = <<e>>
          ELSE LET h == eval(l[1], en)
                   failing == {k \in 2..Len(l) : eval(l[k], en).res.kind = "Err"}
                   first == CHOOSE k \in failing : \A j \in failing : k <= j
               IN IF h.res.kind = "Err"
                  THEN ret.res = h.res /\ ret.log = <<e>> \o h.log
                  ELSE IF h.res.val.tag # "Func"
                  THEN /\ ret.res = Err(<<"first form must be a function">>)
                       /\ ret.log = <<e>> \o h.log
                  ELSE IF failing # {}
                  THEN /\ ret.res = eval(l[first], en).res
                       /\ ret.log = <<e>> \o h.log \o ArgLogs(l, en, first)
                  ELSE /\ ret.res = call_func(h.res.val.f,
                                        [i \in 1..(Len(l) - 1) |-> eval(l[i + 1], en).res.val])
                       /\ ret.log = <<e>> \o h.log \o ArgLogs(l, en, Len(l))

\* argument 1 fails, argument 2 is a valid Number: the error is argument 1's
\* and argument 2 was not evaluated
C6_Witness ==
    /\ pc = "returned"
    /\ call.fn = "eval"
    /\ call.e = List(<<Symbol(<<"+">>), Symbol(<<"a">>), Number(1)>>)
    /\ call.env = default_env
    /\ ret.res = Err(<<"unexpected symbol k='", "a", "'">>)
    /\ \A i \in DOMAIN ret.log : ret.log[i] # Number(1)

\* C9: evaluating a Symbol returns the Expression bound to that exact name
\* when there is one, and otherwise an error whose message contains the
\* symbol's text; evaluating a Number returns that Number.
C9_EvalAtom ==
    (pc = "returned" /\ call.fn = "eval")
    => IF call.e.tag = "Symbol"
       THEN IF call.e.s \in DOMAIN call.env
            THEN ret.res = Ok(call.env[call.e.s])
            ELSE ret.res.kind = "Err" /\ Contains(ret.res.msg, call.e.s)
       ELSE IF call.e.tag = "Number" THEN ret.res = Ok(call.e)
       ELSE TRUE

\* "a" is bound and "A" is not: the lookup of "A" fails and names "A"
C9_Witness ==
    /\ pc = "returned"
    /\ call.fn = "eval"
    /\ call.e = Symbol(<<"A">>)
    /\ <<"a">> \in DOMAIN call.env
    /\ ret.res.kind = "Err"
    /\ Contains(ret.res.msg, <<"A">>)

\* a line written by println!("// => {}", ..)
IsResponse(line) == line # <<>> /\ Head(line) = "// => "

\* C7: after the REPL reads a line it eventually writes exactly one line
\* beginning "// => " and then issues the next prompt.
C7_EveryLineAnswered ==
    \A n \in 0..(MaxOut - 2) :
        (pc = "parse_eval" /\ ~eof /\ Len(out) = n)
        ~> (/\ pc = "slurp"
            /\ Len(out) = n + 2
            /\ IsResponse(out[n + 1])
            /\ out[n + 2] = <<"lang >">>)

\* C8: after end of input the REPL issues no further prompt and writes no
\* further "// => " line.
C8_NoOutputAfterEof == [][eof => out' = out]_vars

\* the Result of parse_eval for a line in the default environment, when
\* parse returns
Outcome(line) ==
    LET p == parse(tokenize(line))
    IN IF p.kind = "Err" THEN p
       ELSE IF p.kind = "Ok" THEN eval(p.exp, default_env).res
       ELSE LET s == read_seq_split(p.tokens)
            IN IF s.kind = "Err" THEN s ELSE NoResult

\* C10: no evaluation changes the environment: it holds the bindings of the
\* default environment whatever lines were evaluated, and the outcome of a
\* line is that of the line in the default environment.
C10_EnvUnchanged ==
    /\ env = default_env
    /\ pc = "print" => ret = Outcome(exp)

\* two lines answered, the first with an error and the second with a value
C10_Witness ==
    /\ Len(out) = 4
    /\ out[2] = <<"// => ", "unexpected symbol k='", "a", "'">>
    /\ out[4] = <<"// => ", "1">>
    /\ env = default_env

====
